---------------------------- MODULE Spec2Model ----------------------------
(***************************************************************************)
(* Statement segmentation, classification and decision queue of           *)
(* automate-pro (src/main.py).                                             *)
(*                                                                         *)
(* Page texts and registry names are TLA+ strings; the text primitives of  *)
(* Python the code relies on (str.find, str.strip, str.splitlines,         *)
(* str.lower, re.search, difflib.get_close_matches) are computed character *)
(* by character on them.                                                   *)
(***************************************************************************)
EXTENDS Integers, Sequences, FiniteSets, TLC

(***************************************************************************)
(* Characters and Python string primitives                                 *)
(***************************************************************************)

\* the i-th character (1-based) of a string, as a one-character string
CharAt(s, i) == SubSeq(s, i, i)

\* printable ASCII in code point order: code points 32..95 and 97..126
AsciiLow ==
    " !\"#$%&'()*+,-./0123456789:;<=>?@ABCDEFGHIJKLMNOPQRSTUVWXYZ[\\]^_"

AsciiHigh == "abcdefghijklmnopqrstuvwxyz{|}~"

UpperLetters == "ABCDEFGHIJKLMNOPQRSTUVWXYZ"

LowerLetters == "abcdefghijklmnopqrstuvwxyz"

DigitChars == "0123456789"

\* position of character c in the string alphabet, 0 when absent
IndexIn(c, alphabet) ==
    IF \E i \in 1..Len(alphabet) : CharAt(alphabet, i) = c
    THEN CHOOSE i \in 1..Len(alphabet) : CharAt(alphabet, i) = c
    ELSE 0

\* code point of a character (control characters sort before printable ones)
Ord(c) ==
    IF IndexIn(c, AsciiLow) # 0 THEN IndexIn(c, AsciiLow) + 31
    ELSE IF IndexIn(c, AsciiHigh) # 0 THEN IndexIn(c, AsciiHigh) + 96
    ELSE 10

IsSpace(c) == c \in {" ", "\t", "\n", "\r", "\f"}

IsLineBreak(c) == c \in {"\n", "\r", "\f"}

IsDigit(c) == IndexIn(c, DigitChars) # 0

LowerChar(c) ==
    IF IndexIn(c, UpperLetters) # 0
    THEN CharAt(LowerLetters, IndexIn(c, UpperLetters))
    ELSE c

\* str.lower() of s[lo..hi] (1-based, inclusive), by halves
RECURSIVE LowerRange(_, _, _)
LowerRange(s, lo, hi) ==
    IF lo > hi THEN ""
    ELSE IF lo = hi THEN LowerChar(CharAt(s, lo))
    ELSE LowerRange(s, lo, (lo + hi) \div 2) \o LowerRange(s, (lo + hi) \div 2 + 1, hi)

\* str.lower()
Lower(s) == LowerRange(s, 1, Len(s))

\* least and greatest element of a non-empty set of integers
Min(S) == CHOOSE n \in S : \A m \in S : n <= m

Max(S) == CHOOSE n \in S : \A m \in S : n >= m

\* str.find(sub): the lowest 0-based index of sub in s, -1 when absent
Find(s, sub) ==
    LET hits == {i \in 1..(Len(s) - Len(sub) + 1) : SubSeq(s, i, i + Len(sub) - 1) = sub}
    IN  IF hits = {} THEN -1
        ELSE (CHOOSE i \in hits : \A j \in hits : i <= j) - 1

\* s[i..j] (1-based, inclusive), cut at the end of s
Sub(s, i, j) ==
    IF i > Len(s) \/ j < i THEN "" ELSE SubSeq(s, i, IF j > Len(s) THEN Len(s) ELSE j)

\* sub in s
Contains(s, sub) == Find(s, sub) # -1

\* s[lo:hi] for 0 <= lo <= hi (0-based, hi exclusive)
Slice(s, lo, hi) == Sub(s, lo + 1, hi)

\* str.strip()
Strip(s) ==
    LET keep == {i \in 1..Len(s) : ~IsSpace(CharAt(s, i))}
    IN  IF keep = {} THEN ""
        ELSE SubSeq(s, CHOOSE i \in keep : \A j \in keep : i <= j,
                       CHOOSE i \in keep : \A j \in keep : i >= j)

\* a line boundary starts at position i: a line break character that is not
\* the "\n" of a "\r\n" pair
BreakAt(s, i) ==
    IsLineBreak(CharAt(s, i)) /\ ~(CharAt(s, i) = "\n" /\ i > 1 /\ CharAt(s, i - 1) = "\r")

\* the position after the line boundary that starts at i
AfterBreak(s, i) ==
    IF CharAt(s, i) = "\r" /\ i < Len(s) /\ CharAt(s, i + 1) = "\n" THEN i + 2 ELSE i + 1

\* str.splitlines(): a line starts at the start of s and after every line
\* boundary, and runs to the next boundary; no line starts at the end of s
SplitLines(s) ==
    LET breaks == {i \in 1..Len(s) : BreakAt(s, i)}
        starts == {p \in {1} \cup {AfterBreak(s, i) : i \in breaks} : p <= Len(s)}
        stop(p) == LET later == {i \in breaks : i >= p}
                   IN  IF later = {} THEN Len(s) + 1
                       ELSE CHOOSE i \in later : \A j \in later : i <= j
        nth(n) == CHOOSE p \in starts : Cardinality({q \in starts : q <= p}) = n
    IN  [n \in 1..Cardinality(starts) |-> SubSeq(s, nth(n), stop(nth(n)) - 1)]

\* [line.strip() for line in lines if line.strip()]
RECURSIVE StripNonEmpty(_)
StripNonEmpty(ls) ==
    IF ls = <<>> THEN <<>>
    ELSE IF Strip(Head(ls)) = "" THEN StripNonEmpty(Tail(ls))
         ELSE <<Strip(Head(ls))>> \o StripNonEmpty(Tail(ls))

\* ' '.join(lines)
RECURSIVE JoinSpace(_)
JoinSpace(ls) ==
    IF ls = <<>> THEN ""
    ELSE IF Len(ls) = 1 THEN Head(ls)
         ELSE Head(ls) \o " " \o JoinSpace(Tail(ls))

\* lines[:n]
Take(ls, n) == SubSeq(ls, 1, IF Len(ls) < n THEN Len(ls) ELSE n)

\* a < b in Python's string order: by the code points at the first position
\* where they differ, a proper prefix first
StrLess(a, b) ==
    LET n    == IF Len(a) < Len(b) THEN Len(a) ELSE Len(b)
        diff == {i \in 1..n : CharAt(a, i) # CharAt(b, i)}
        d    == CHOOSE i \in diff : \A j \in diff : i <= j
    IN  IF diff = {} THEN Len(a) < Len(b)
        ELSE Ord(CharAt(a, d)) < Ord(CharAt(b, d))

\* int() of a run of decimal digits
RECURSIVE ParseInt(_)
ParseInt(ds) ==
    IF ds = "" THEN 0
    ELSE ParseInt(SubSeq(ds, 1, Len(ds) - 1)) * 10 + (IndexIn(CharAt(ds, Len(ds)), DigitChars) - 1)

(***************************************************************************)
(* re.search(r'Page\s*(\d+)\s*of\s*(\d+)', text, re.IGNORECASE)            *)
(***************************************************************************)

\* first position >= i (1-based) that does not hold whitespace: greedy \s*
RECURSIVE SkipSpace(_, _)
SkipSpace(s, i) ==
    IF i <= Len(s) /\ IsSpace(CharAt(s, i)) THEN SkipSpace(s, i + 1) ELSE i

\* first position >= i that does not hold a digit: greedy \d+ ends before it
RECURSIVE SkipDigits(_, _)
SkipDigits(s, i) ==
    IF i <= Len(s) /\ IsDigit(CharAt(s, i)) THEN SkipDigits(s, i + 1) ELSE i

\* the pattern matched at position i: <<TRUE, group(2)>> or <<FALSE, "">>.
\* Whitespace, digits and letters are disjoint classes, so the greedy match
\* is the only one at a position.
PageMatchAt(s, i) ==
    LET d1 == SkipSpace(s, i + 4)
        e1 == SkipDigits(s, d1)
        o  == SkipSpace(s, e1)
        d2 == SkipSpace(s, o + 2)
        e2 == SkipDigits(s, d2)
    IN  IF /\ Lower(Sub(s, i, i + 3)) = "page"
           /\ e1 > d1
           /\ Lower(Sub(s, o, o + 1)) = "of"
           /\ e2 > d2
        THEN <<TRUE, Sub(s, d2, e2 - 1)>>
        ELSE <<FALSE, "">>

\* page_match: the leftmost match, or none
page_match(text) ==
    LET hits == {i \in 1..Len(text) : PageMatchAt(text, i)[1]}
    IN  IF hits = {} THEN [found |-> FALSE, group2 |-> ""]
        ELSE [found |-> TRUE,
              group2 |-> PageMatchAt(text, CHOOSE i \in hits : \A j \in hits : i <= j)[2]]

\* total_pages = int(page_match.group(2)) if page_match else 1
total_pages(text) ==
    IF page_match(text).found THEN ParseInt(page_match(text).group2) ELSE 1

(***************************************************************************)
(* Boundary extraction (main.py 203-223 and 256-275)                       *)
(***************************************************************************)

start_markers ==
    <<"914.949.9618", "302.703.8961", "www.unitedcorporate.com", "AR@UNITEDCORPORATE.COM">>

end_marker == "STATEMENT OF OPEN INVOICE(S)"

US_STATES ==
    <<"AL", "AK", "AZ", "AR", "CA", "CO", "CT", "DE", "FL", "GA", "HI", "ID", "IL", "IN",
      "IA", "KS", "KY", "LA", "ME", "MD", "MA", "MI", "MN", "MS", "MO", "MT", "NE", "NV",
      "NH", "NJ", "NM", "NY", "NC", "ND", "OH", "OK", "OR", "PA", "RI", "SC", "SD", "TN",
      "TX", "UT", "VT", "VA", "WA", "WV", "WI", "WY", "DC">>

\* min((text.find(m) for m in start_markers if text.find(m) != -1), default=-1)
start_idx(text) ==
    LET found == {Find(text, start_markers[k]) : k \in 1..Len(start_markers)} \ {-1}
    IN  IF found = {} THEN -1 ELSE CHOOSE i \in found : \A j \in found : i <= j

\* text.find(end_marker)
end_idx(text) == Find(text, end_marker)

\* start_idx != -1 and end_idx != -1 and start_idx < end_idx
has_segment(text) ==
    start_idx(text) # -1 /\ end_idx(text) # -1 /\ start_idx(text) < end_idx(text)

\* lines of text[start_idx:end_idx].strip(), each stripped, the empty ones dropped
extract_lines(text) ==
    StripNonEmpty(SplitLines(Strip(Slice(text, start_idx(text), end_idx(text)))))

\* variant of has_email that looks for the lower-case word only
has_email_as_written(text) == Contains(text, "email")

\* "email" in text.lower()
has_email(text) == Contains(Lower(text), "email")

\* any(state in ' '.join(lines[1:]) for state in US_STATES)
has_state(lines) ==
    \E k \in 1..Len(US_STATES) : Contains(JoinSpace(Tail(lines)), US_STATES[k])

(***************************************************************************)
(* difflib.get_close_matches(word, possibilities, n=1, cutoff=0.8)         *)
(* (main.py 229, 281).  SequenceMatcher runs without junk: isjunk is None  *)
(* and the automatic junk heuristic needs a sequence of 200 elements.      *)
(***************************************************************************)

\* length of the common run of a from i and b from j (0-based), inside the
\* windows a[..ahi) and b[..bhi)
CommonLen(a, b, i, j, ahi, bhi) ==
    CHOOSE k \in 0..Min({ahi - i, bhi - j}) :
        /\ \A m \in 0..(k - 1) : CharAt(a, i + 1 + m) = CharAt(b, j + 1 + m)
        /\ \/ k = ahi - i
           \/ k = bhi - j
           \/ CharAt(a, i + 1 + k) # CharAt(b, j + 1 + k)

\* the first of the cells <<i, j>>: least i, and least j for that i
FirstCell(cells) ==
    CHOOSE c \in cells :
        \A d \in cells : c[1] < d[1] \/ (c[1] = d[1] /\ c[2] <= d[2])

\* the block <<i, j, k>> of length k that starts first, size being the
\* function from <<i, j>> to the length of the common run from there
first_block(size, k, alo, blo) ==
    IF k = 0 THEN <<alo, blo, 0>>
    ELSE FirstCell({c \in DOMAIN size : size[c] = k}) \o <<k>>

\* SequenceMatcher.find_longest_match: <<i, j, k>>, the longest block with
\* a[i:i+k] = b[j:j+k] in the windows; of the longest ones the one that
\* starts earliest in a, and of those the one that starts earliest in b
longest_of(size, alo, blo) ==
    first_block(size, Max({size[c] : c \in DOMAIN size} \cup {0}), alo, blo)

find_longest_match(a, b, alo, ahi, blo, bhi) ==
    longest_of([c \in (alo..(ahi - 1)) \X (blo..(bhi - 1)) |->
                   CommonLen(a, b, c[1], c[2], ahi, bhi)], alo, blo)

\* sum of the sizes of SequenceMatcher.get_matching_blocks: the longest
\* block m, then the same to its left and to its right
RECURSIVE matches(_, _, _, _, _, _)
RECURSIVE matches_around(_, _, _, _, _, _, _)
matches_around(a, b, alo, ahi, blo, bhi, m) ==
    IF m[3] = 0 THEN 0
    ELSE m[3]
         + (IF alo < m[1] /\ blo < m[2] THEN matches(a, b, alo, m[1], blo, m[2]) ELSE 0)
         + (IF m[1] + m[3] < ahi /\ m[2] + m[3] < bhi
            THEN matches(a, b, m[1] + m[3], ahi, m[2] + m[3], bhi) ELSE 0)

matches(a, b, alo, ahi, blo, bhi) ==
    matches_around(a, b, alo, ahi, blo, bhi, find_longest_match(a, b, alo, ahi, blo, bhi))

\* SequenceMatcher(a=x, b=word).ratio() = 2.0 * matches / (len(a) + len(b)),
\* kept as the fraction <<numerator, denominator>>
ratio(x, word) ==
    IF Len(x) + Len(word) = 0 THEN <<1, 1>>
    ELSE <<2 * matches(x, word, 0, Len(x), 0, Len(word)), Len(x) + Len(word)>>

\* cutoff = 0.8, as the fraction CutoffNum / CutoffDen
CutoffNum == 8

CutoffDen == 10

\* variant of meets_cutoff with a strict comparison
above_cutoff(r) == r[1] * CutoffDen > CutoffNum * r[2]

\* r >= cutoff
meets_cutoff(r) == r[1] * CutoffDen >= CutoffNum * r[2]

\* ratio() >= cutoff.  real_quick_ratio() and quick_ratio() are upper bounds
\* of ratio(), so the three tests of get_close_matches pass together.
is_close(x, word) == meets_cutoff(ratio(x, word))

\* variant of pair_less that compares the scores only
pair_less_by_score(r1, x1, r2, x2) == r1[1] * r2[2] < r2[1] * r1[2]

\* (r1, x1) < (r2, x2) as Python compares tuples
pair_less(r1, x1, r2, x2) ==
    \/ r1[1] * r2[2] < r2[1] * r1[2]
    \/ (r1[1] * r2[2] = r2[1] * r1[2] /\ StrLess(x1, x2))

\* (score1, x1) < (score2, x2) for the result tuples of get_close_matches
tuple_less(x1, x2, word) == pair_less(ratio(x1, word), x1, ratio(x2, word), x2)

\* heapq.nlargest(1, result): max(result) over the tuples (score, x) of the
\* entries at the positions close; [] when there is none
nlargest(word, possibilities, close) ==
    IF close = {} THEN <<>>
    ELSE <<possibilities[CHOOSE k \in close :
               \A l \in close : ~tuple_less(possibilities[k], possibilities[l], word)]>>

\* get_close_matches(word, possibilities, n=1, cutoff=0.8)
get_close_matches(word, possibilities) ==
    nlargest(word, possibilities,
             {k \in 1..Len(possibilities) : is_close(possibilities[k], word)})

(***************************************************************************)
(* Inputs: page texts, documents and registries                            *)
(***************************************************************************)

\* longest document, in pages
MaxPages == 2

\* longest registry, in entries
MaxRegistry == 2

\* Page texts.  The entity name is the line that starts at the first start
\* marker; which tier classifies it depends on the registry.
TextNY1 ==
    "914.949.9618 Acme\n1 Main St\nAlbany NY 12207\nSTATEMENT OF OPEN INVOICE(S)\nPage 1 of 1"

TextNY3 ==
    "United\n914.949.9618 Acme\nAttn AP\n1 Main St\nSuite 2\nAlbany\nNY 12207\nUSA\nSTATEMENT OF OPEN INVOICE(S)\nPAGE 1 OF 3"

TextEmailTX ==
    "914.949.9618 Acme\nDallas TX\nSTATEMENT OF OPEN INVOICE(S)\nSend by EMail only"

TextIndia ==
    "302.703.8961 Bolt\nMUMBAI INDIA\nSTATEMENT OF OPEN INVOICE(S)\npage2of2"

TextFrance ==
    "914.949.9618 Acme\n\n  Lyon France \nSTATEMENT OF OPEN INVOICE(S)\nPage X of Y"

TextNoRecord ==
    "STATEMENT OF OPEN INVOICE(S)\n914.949.9618 Acme\nAlbany NY\nPage 2 of 2"

TextZero ==
    "914.949.9618 Acme\nAlbany NY\nSTATEMENT OF OPEN INVOICE(S)\nPage 1 of 0"

TextBlank == " \n"

PageTexts ==
    {TextNY1, TextNY3, TextEmailTX, TextIndia, TextFrance, TextNoRecord, TextZero, TextBlank}

\* registry entries: an exact name, its neighbours at the same similarity,
\* a name at similarity 0.8 exactly, and a name further away
RegistryNames ==
    {"914.949.9618 Acme", "914.949.9618 Acma", "914.949.9618 Acmz", "914.949.9618X", "Acme"}

\* all sequences over S of length at most n
RECURSIVE SeqsUpTo(_, _)
SeqsUpTo(S, n) ==
    IF n = 0 THEN {<<>>}
    ELSE SeqsUpTo(S, n - 1) \cup {Append(q, e) : q \in {r \in SeqsUpTo(S, n - 1) : Len(r) = n - 1}, e \in S}

Documents == SeqsUpTo(PageTexts, MaxPages) \ {<<>>}

Registries == SeqsUpTo(RegistryNames, MaxRegistry)

\* the page scan is followed until pending_decisions has this many entries
\* (a scan that does not end appends to it for ever)
MaxPending == 4

\* the web handlers: the longest uploaded document, in pages
MaxUploadPages == 2

\* the web handlers: the uploaded documents and registries
UploadDocuments == SeqsUpTo(PageTexts, MaxUploadPages) \ {<<>>}

UploadRegistries ==
    {<<>>, <<"914.949.9618 Acme">>, <<"914.949.9618 Acma", "914.949.9618 Acmz">>}

(***************************************************************************)
(* process_statements_pypdf2 / process_statements_pymupdf: the page scan   *)
(***************************************************************************)

\* what the code reads off one page's text (main.py 43, 51, 212-223, 239, 241
\* and 264-275, 291, 293): text is whether text.strip() is non-empty, lines
\* is [] when no segment is found
page_facts(text) ==
    LET lines == IF has_segment(text) THEN extract_lines(text) ELSE <<>>
    IN  [text        |-> Strip(text) # "",
         page_match  |-> page_match(text).found,
         total_pages |-> total_pages(text),
         lines       |-> lines,
         email       |-> has_email(text),
         state       |-> lines # <<>> /\ has_state(lines)]

\* page_facts of every page text, computed once
Page == [t \in PageTexts |-> page_facts(t)]

\* the names the scan can extract: lines[0] of the pages with lines
EntityNames == {Page[t].lines[1] : t \in {u \in PageTexts : Page[u].lines # <<>>}}

\* get_close_matches(name, registry, n=1, cutoff=0.8) for every extracted name
\* and registry, computed once
Close ==
    [w \in EntityNames |->
        [r \in Registries \cup UploadRegistries |-> get_close_matches(w, r)]]

\* categories = {'dnm': [], 'national_single': [], 'national_multi': [], 'foreign': []}
CategoryNames == <<"dnm", "national_single", "national_multi", "foreign">>

EmptyCategories == [c \in {CategoryNames[k] : k \in 1..Len(CategoryNames)} |-> <<>>]

\* list(range(lo, hi))
Range(lo, hi) == [i \in 1..(hi - lo) |-> lo + i - 1]

\* categories[name].extend(pages)
Extend(categories, name, pages) == [categories EXCEPT ![name] = @ \o pages]

\* variant of in_registry that looks at the first entry only
in_registry_first(name, company_names) ==
    company_names # <<>> /\ company_names[1] = name

\* company_name in company_names
in_registry(name, company_names) == \E k \in 1..Len(company_names) : company_names[k] = name

\* the entry appended to pending_decisions
Decision(page_num, lines, close_matches, total) ==
    [page_num     |-> page_num + 1,
     company_name |-> lines[1],
     close_match  |-> close_matches[1],
     total_pages  |-> total,
     lines        |-> Take(lines, 5)]

\* main.py 210-244: one iteration of the loop of process_statements_pypdf2
pypdf2_page(page_num, text, company_names, categories, pending_decisions) ==
    LET lines == Page[text].lines
        pages == <<page_num + 1>>
        same  == [categories |-> categories, pending_decisions |-> pending_decisions]
    IN  IF lines = <<>> THEN same
        ELSE IF in_registry(lines[1], company_names)
        THEN [same EXCEPT !.categories = Extend(categories, "dnm", pages)]
        ELSE IF Close[lines[1]][company_names] # <<>>
        THEN [same EXCEPT !.pending_decisions =
                 Append(pending_decisions,
                        Decision(page_num, lines, Close[lines[1]][company_names], 1))]
        ELSE IF Page[text].email
        THEN [same EXCEPT !.categories = Extend(categories, "dnm", pages)]
        ELSE IF Page[text].state
        THEN [same EXCEPT !.categories = Extend(categories, "national_single", pages)]
        ELSE [same EXCEPT !.categories = Extend(categories, "foreign", pages)]

\* main.py 261-299: one iteration of the loop of process_statements_pymupdf
pymupdf_page(page_num, text, company_names, categories, pending_decisions) ==
    LET lines == Page[text].lines
        total == Page[text].total_pages
        pages == Range(page_num + 1, page_num + 1 + total)
        same  == [categories |-> categories, pending_decisions |-> pending_decisions]
    IN  IF lines = <<>> THEN same
        ELSE IF in_registry(lines[1], company_names)
        THEN [same EXCEPT !.categories = Extend(categories, "dnm", pages)]
        ELSE IF Close[lines[1]][company_names] # <<>>
        THEN [same EXCEPT !.pending_decisions =
                 Append(pending_decisions,
                        Decision(page_num, lines, Close[lines[1]][company_names], total))]
        ELSE IF Page[text].email
        THEN [same EXCEPT !.categories = Extend(categories, "dnm", pages)]
        ELSE IF Page[text].state
        THEN IF total = 1
             THEN [same EXCEPT !.categories = Extend(categories, "national_single", pages)]
             ELSE [same EXCEPT !.categories = Extend(categories, "national_multi", pages)]
        ELSE [same EXCEPT !.categories = Extend(categories, "foreign", pages)]

\* main.py 301: page_num += total_pages if page_match else 1
pymupdf_advance(text) == IF Page[text].page_match THEN Page[text].total_pages ELSE 1

\* the while loop of process_statements_pymupdf from page_num on (main.py
\* 260-304).  An iteration that advances page_num by 0 repeats for ever: the
\* call does not return (ends = FALSE).
RECURSIVE pymupdf_loop(_, _, _, _, _)
pymupdf_loop(d, names, p, cats, pend) ==
    IF p >= Len(d) THEN [ends |-> TRUE, categories |-> cats, pending_decisions |-> pend]
    ELSE IF pymupdf_advance(d[p + 1]) = 0
    THEN [ends |-> FALSE, categories |-> cats, pending_decisions |-> pend]
    ELSE LET r == pymupdf_page(p, d[p + 1], names, cats, pend)
         IN  pymupdf_loop(d, names, p + pymupdf_advance(d[p + 1]),
                          r.categories, r.pending_decisions)

process_statements_pymupdf(d, names) == pymupdf_loop(d, names, 0, EmptyCategories, <<>>)

(***************************************************************************)
(* create_statement_pdfs_pymupdf (main.py 336-355)                         *)
(***************************************************************************)

\* variant of artifact_pages that takes the page numbers as 0-based
artifact_pages_zero_based(d, pages) ==
    LET keep == {pages[k] : k \in 1..Len(pages)} \cap 0..(Len(d) - 1)
        nth(n) == CHOOSE q \in keep : Cardinality({r \in keep : r <= q}) = n
    IN  [n \in 1..Cardinality(keep) |-> nth(n)]

\* variant of artifact_pages that keeps the order and the repetitions of pages
artifact_pages_as_listed(d, pages) ==
    LET at == {k \in 1..Len(pages) : pages[k] >= 1 /\ pages[k] <= Len(d)}
        nth(n) == CHOOSE k \in at : Cardinality({l \in at : l <= k}) = n
    IN  [n \in 1..Cardinality(at) |-> pages[nth(n)]]

\* sorted(set(pages)) without the pages outside the document
artifact_pages(d, pages) ==
    LET keep == {pages[k] : k \in 1..Len(pages)} \cap 1..Len(d)
        nth(n) == CHOOSE q \in keep : Cardinality({r \in keep : r <= q}) = n
    IN  [n \in 1..Cardinality(keep) |-> nth(n)]

\* the names, in the order of the dict, of the categories that get a file
RECURSIVE written(_, _, _)
written(d, categories, k) ==
    IF k > Len(CategoryNames) THEN <<>>
    ELSE IF artifact_pages(d, categories[CategoryNames[k]]) # <<>>
         THEN <<CategoryNames[k]>> \o written(d, categories, k + 1)
         ELSE written(d, categories, k + 1)

\* files: the returned list of file names
create_statement_pdfs_pymupdf(d, categories) ==
    LET names == written(d, categories, 1)
    IN  [k \in 1..Len(names) |-> names[k] \o ".pdf"]

\* the files the call writes to RESULTS_FOLDER: file name -> pages of the file
written_files(d, categories) ==
    [f \in {CategoryNames[k] \o ".pdf" :
               k \in {l \in 1..Len(CategoryNames) :
                         artifact_pages(d, categories[CategoryNames[l]]) # <<>>}} |->
        artifact_pages(d, categories[SubSeq(f, 1, Len(f) - 4)])]

(***************************************************************************)
(* State                                                                   *)
(***************************************************************************)

VARIABLES
    PDF_LIB,            \* main.py 11-19: "pypdf2", "pymupdf" or "none"
    doc,                \* the uploaded document: one text per page
    company_names,      \* the first column of the uploaded spreadsheet
    page_num,           \* page scan: the loop variable
    categories,         \* page scan: categories
    pending_decisions,  \* page scan: pending_decisions
    pc,                 \* page scan: "scan" in the loop, "done" after it
    invoices,           \* extract_invoices: invoice number -> list of page indices
    session,            \* the signed cookie: <<>> or <<temp_data>>
    temp_data,          \* statement_decision's local temp_data when the request ends
    response,           \* the last response
    results,            \* the files the last create_statement_pdfs wrote: name -> pages
    issued,             \* the decisions of the last 'review' response, as the client holds them
    finalized           \* create_statement_pdfs ran since session['temp_data'] was set

scan_vars == <<page_num, categories, pending_decisions, pc, invoices>>

web_vars == <<session, temp_data, response, results, issued, finalized>>

vars == <<PDF_LIB, doc, company_names, page_num, categories, pending_decisions, pc,
          invoices, session, temp_data, response, results, issued, finalized>>

(***************************************************************************)
(* Backend dispatch (main.py 11-19, 36-63, 306-312, 357-363)               *)
(***************************************************************************)

\* main.py 12 binds the module to the name pdf_lib only; the pypdf2 functions
\* use the name PyPDF2 (39, 207, 318), which is unbound: NameError
PyPDF2_bound == FALSE

\* validate_pdf_pymupdf: any(page.get_text().strip() for page in doc)
validate_pdf_pymupdf(d) == \E k \in 1..Len(d) : Page[d[k]].text

\* validate_pdf_pypdf2: the NameError is caught by the bare except
validate_pdf_pypdf2(d) == PyPDF2_bound /\ Len(d) > 0 /\ Page[d[1]].text

validate_pdf(lib, d) ==
    IF lib = "pypdf2" THEN validate_pdf_pypdf2(d)
    ELSE IF lib = "pymupdf" THEN validate_pdf_pymupdf(d)
    ELSE FALSE

\* the for loop of process_statements_pypdf2 from page_num on (main.py 209-246)
RECURSIVE pypdf2_loop(_, _, _, _, _)
pypdf2_loop(d, names, p, cats, pend) ==
    IF p >= Len(d) THEN [ends |-> TRUE, categories |-> cats, pending_decisions |-> pend]
    ELSE LET r == pypdf2_page(p, d[p + 1], names, cats, pend)
         IN  pypdf2_loop(d, names, p + 1, r.categories, r.pending_decisions)

\* process_statements: raises, or does not end, or returns categories and
\* pending_decisions
process_statements(lib, d, names) ==
    IF lib = "pypdf2"
    THEN IF PyPDF2_bound
         THEN [raises |-> FALSE] @@ pypdf2_loop(d, names, 0, EmptyCategories, <<>>)
         ELSE [raises |-> TRUE, ends |-> TRUE]
    ELSE IF lib = "pymupdf"
    THEN [raises |-> FALSE] @@ process_statements_pymupdf(d, names)
    ELSE [raises |-> TRUE, ends |-> TRUE]

\* create_statement_pdfs raises: NameError under pypdf2, "No PDF library
\* available" without a library
create_raises(lib) == IF lib = "pypdf2" THEN ~PyPDF2_bound ELSE lib # "pymupdf"

\* the two create_statement_pdfs functions build the same files (main.py
\* 314-334 and 336-355)
create_statement_pdfs(d, cats) == create_statement_pdfs_pymupdf(d, cats)

(***************************************************************************)
(* Responses and the session cookie                                        *)
(***************************************************************************)

NoSession == <<>>

NoResponse == [code |-> 0]

\* the request is never answered
Hang == [code |-> 0, error |-> "no response"]

Error(code, text) == [code |-> code, error |-> text]

Review(decisions) == [code |-> 200, status |-> "review", decisions |-> decisions]

Complete(files) == [code |-> 200, status |-> "complete", files |-> files]

Continue(remaining) == [code |-> 200, status |-> "continue", remaining |-> remaining]

\* the values of 'action' a client may send: the three of the interface and
\* one that is none of them
Actions == {"dnm", "foreign", "national", "other"}

\* a decision as issued, with its total_pages changed by the client
Tampered(statement) == [statement EXCEPT !.total_pages = @ + 1]

\* a well-formed statement that was never issued
Unissued ==
    [page_num |-> 1, company_name |-> "", close_match |-> "", total_pages |-> 1, lines |-> <<>>]

\* the statements a client may send
Statements ==
    {Unissued} \cup {issued[k] : k \in 1..Len(issued)}
               \cup {Tampered(issued[k]) : k \in 1..Len(issued)}

\* variant of Remove that drops the entry at the head, whatever x is
Remove_head(lst, x) == Tail(lst)

\* lst.remove(x): lst without the first element equal to x.  The ValueError
\* of a list without x is the caller's test of Member.
Remove(lst, x) ==
    LET at == Min({k \in 1..Len(lst) : lst[k] = x} \cup {Len(lst) + 1})
    IN  SubSeq(lst, 1, at - 1) \o SubSeq(lst, at + 1, Len(lst))

\* variant of Member for a remove that accepts an absent element
Member_or_absent(lst, x) == TRUE

\* x in lst
Member(lst, x) == \E k \in 1..Len(lst) : lst[k] = x

\* variant of fold without the split of national by total_pages
fold_national_single(cats, action, statement) ==
    LET pages == Range(statement.page_num, statement.page_num + statement.total_pages)
    IN  IF action = "dnm" THEN Extend(cats, "dnm", pages)
        ELSE IF action = "foreign" THEN Extend(cats, "foreign", pages)
        ELSE IF action = "national" THEN Extend(cats, "national_single", pages)
        ELSE cats

\* main.py 119-129: the pages of the statement go to the category of the action
fold(cats, action, statement) ==
    LET pages == Range(statement.page_num, statement.page_num + statement.total_pages)
    IN  IF action = "dnm" THEN Extend(cats, "dnm", pages)
        ELSE IF action = "foreign" THEN Extend(cats, "foreign", pages)
        ELSE IF action = "national"
        THEN IF statement.total_pages = 1
             THEN Extend(cats, "national_single", pages)
             ELSE Extend(cats, "national_multi", pages)
        ELSE cats

(***************************************************************************)
(* POST /api/statement-separator (main.py 69-103)                          *)
(***************************************************************************)

statement_separator(has_pdf, has_excel) ==
    /\ pc = "web"
    /\ temp_data' = <<>>
    /\ UNCHANGED <<PDF_LIB, doc, company_names, scan_vars>>
    /\ IF ~has_pdf \/ ~has_excel
       THEN /\ response' = Error(400, "Both PDF and Excel files required")
            /\ UNCHANGED <<session, results, issued, finalized>>
       ELSE IF ~validate_pdf(PDF_LIB, doc)
       THEN /\ response' = Error(400, "PDF contains no readable text")
            /\ UNCHANGED <<session, results, issued, finalized>>
       ELSE \E result \in {process_statements(PDF_LIB, doc, company_names)} :
            IF result.raises
            THEN /\ response' = Error(500, "exception")
                 /\ UNCHANGED <<session, results, issued, finalized>>
            ELSE IF ~result.ends
            THEN /\ response' = Hang
                 /\ UNCHANGED <<session, results, issued, finalized>>
            ELSE IF result.pending_decisions # <<>>
            THEN /\ session' = <<[pdf_path   |-> doc,
                                  categories |-> result.categories,
                                  pending    |-> result.pending_decisions]>>
                 /\ response' = Review(result.pending_decisions)
                 /\ issued' = result.pending_decisions
                 /\ finalized' = FALSE
                 /\ UNCHANGED results
            ELSE IF create_raises(PDF_LIB)
            THEN /\ response' = Error(500, "exception")
                 /\ UNCHANGED <<session, results, issued, finalized>>
            ELSE /\ response' = Complete(create_statement_pdfs(doc, result.categories))
                 /\ results' = written_files(doc, result.categories)
                 /\ UNCHANGED <<session, issued, finalized>>

(***************************************************************************)
(* POST /api/statement-decision (main.py 105-141)                          *)
(*                                                                         *)
(* session.get returns the object read from the cookie; the handler        *)
(* changes it in place, and the cookie is written again only when          *)
(* session['temp_data'] is assigned (137).                                 *)
(***************************************************************************)

statement_decision(action, statement) ==
    /\ pc = "web"
    /\ UNCHANGED <<PDF_LIB, doc, company_names, scan_vars, issued>>
    /\ IF session = NoSession
       THEN /\ response' = Error(400, "Session expired")
            /\ temp_data' = <<>>
            /\ UNCHANGED <<session, results, finalized>>
       ELSE \E folded \in {[session[1] EXCEPT !.categories = fold(@, action, statement)]} :
            IF ~Member(folded.pending, statement)
            THEN /\ temp_data' = <<folded>>
                 /\ response' = Error(500, "list.remove(x): x not in list")
                 /\ UNCHANGED <<session, results, finalized>>
            ELSE \E after \in {[folded EXCEPT !.pending = Remove(@, statement)]} :
                 /\ temp_data' = <<after>>
                 /\ IF after.pending = <<>>
                    THEN /\ IF create_raises(PDF_LIB)
                            THEN /\ response' = Error(500, "exception")
                                 /\ UNCHANGED <<results, finalized>>
                            ELSE /\ response' = Complete(create_statement_pdfs(after.pdf_path,
                                                                               after.categories))
                                 /\ results' = written_files(after.pdf_path, after.categories)
                                 /\ finalized' = TRUE
                         /\ UNCHANGED session
                    ELSE /\ session' = <<after>>
                         /\ response' = Continue(Len(after.pending))
                         /\ UNCHANGED <<results, finalized>>

(***************************************************************************)
(* The page scans, one iteration at a time                                 *)
(***************************************************************************)

\* one iteration of the for loop of process_statements_pypdf2
pypdf2_step ==
    /\ pc = "scan" /\ PDF_LIB = "pypdf2" /\ page_num < Len(doc)
    /\ \E r \in {pypdf2_page(page_num, doc[page_num + 1], company_names,
                                categories, pending_decisions)} :
           /\ categories' = r.categories
           /\ pending_decisions' = r.pending_decisions
    /\ page_num' = page_num + 1
    /\ UNCHANGED <<PDF_LIB, doc, company_names, pc, invoices, web_vars>>

\* one iteration of the while loop of process_statements_pymupdf
pymupdf_step ==
    /\ pc = "scan" /\ PDF_LIB = "pymupdf" /\ page_num < Len(doc)
    /\ Len(pending_decisions) < MaxPending
    /\ \E r \in {pymupdf_page(page_num, doc[page_num + 1], company_names,
                                 categories, pending_decisions)} :
           /\ categories' = r.categories
           /\ pending_decisions' = r.pending_decisions
    /\ page_num' = page_num + pymupdf_advance(doc[page_num + 1])
    /\ UNCHANGED <<PDF_LIB, doc, company_names, pc, invoices, web_vars>>

\* the loop ends and the function returns categories and pending_decisions
scan_return ==
    /\ pc = "scan" /\ page_num >= Len(doc)
    /\ pc' = "done"
    /\ UNCHANGED <<PDF_LIB, doc, company_names, page_num, categories, pending_decisions,
                   invoices, web_vars>>

(***************************************************************************)
(* Specifications                                                          *)
(***************************************************************************)

\* the web handlers on one uploaded document and spreadsheet
Init ==
    /\ PDF_LIB \in {"pypdf2", "pymupdf", "none"}
    /\ doc \in UploadDocuments
    /\ company_names \in UploadRegistries
    /\ page_num = 0
    /\ categories = EmptyCategories
    /\ pending_decisions = <<>>
    /\ pc = "web"
    /\ invoices = <<>>
    /\ session = NoSession
    /\ temp_data = <<>>
    /\ response = NoResponse
    /\ results = <<>>
    /\ issued = <<>>
    /\ finalized = FALSE

Upload == \E has_pdf \in BOOLEAN, has_excel \in BOOLEAN : statement_separator(has_pdf, has_excel)

Decide == \E action \in Actions, statement \in Statements : statement_decision(action, statement)

Next == Upload \/ Decide

Spec == Init /\ [][Next]_vars

\* the page scan of either backend on one document and registry
ScanInit ==
    /\ PDF_LIB \in {"pypdf2", "pymupdf"}
    /\ doc \in Documents
    /\ company_names \in Registries
    /\ page_num = 0
    /\ categories = EmptyCategories
    /\ pending_decisions = <<>>
    /\ pc = "scan"
    /\ invoices = <<>>
    /\ session = NoSession
    /\ temp_data = <<>>
    /\ response = NoResponse
    /\ results = <<>>
    /\ issued = <<>>
    /\ finalized = FALSE

ScanNext == pypdf2_step \/ pymupdf_step \/ scan_return

ScanSpec == ScanInit /\ [][ScanNext]_vars

(***************************************************************************)
(* extract_invoices_pypdf2 / extract_invoices_pymupdf (main.py 365-399)    *)
(***************************************************************************)

\* \w: a letter, a digit or the underscore
IsWordChar(c) == IndexIn(c, UpperLetters \o LowerLetters \o DigitChars \o "_") > 0

\* r'\b[PR]\d{6,8}\b' matched at position i (1-based): the position after
\* the match, 0 without a match.  The digits are followed by a boundary only
\* at the end of the whole run of digits, so the run has 6 to 8 digits.
invoice_at(text, i) ==
    IF /\ CharAt(text, i) \in {"P", "R"}
       /\ (i = 1 \/ ~IsWordChar(CharAt(text, i - 1)))
       /\ SkipDigits(text, i + 1) - (i + 1) \in 6..8
       /\ \/ SkipDigits(text, i + 1) > Len(text)
          \/ ~IsWordChar(CharAt(text, SkipDigits(text, i + 1)))
    THEN SkipDigits(text, i + 1)
    ELSE 0

\* re.findall(pattern, text): the matches from left to right
findall(text) ==
    LET at == {i \in 1..Len(text) : invoice_at(text, i) # 0}
        nth(n) == CHOOSE i \in at : Cardinality({j \in at : j <= i}) = n
    IN  [n \in 1..Cardinality(at) |-> SubSeq(text, nth(n), invoice_at(text, nth(n)) - 1)]

\* page texts with invoice numbers: two numbers, one number twice, strings
\* the pattern does not match, a number twice between others, no text
TextTwoInvoices == "Invoice P1234567 due; see also R123456"

TextRepeated == "P1234567 total\nP1234567 balance"

TextNotInvoices == "XP1234567 P12345 R123456789 P1234567x Q123456 P_123456"

TextMixed == "R123456,P12345678 R123456"

TextEmpty == ""

InvoiceTexts == {TextTwoInvoices, TextRepeated, TextNotInvoices, TextMixed, TextEmpty}

InvoiceDocuments == SeqsUpTo(InvoiceTexts, MaxPages) \ {<<>>}

\* invoice_numbers of every page text, computed once
InvoiceNumbers == [t \in InvoiceTexts |-> findall(t)]

\* if invoice_number not in invoices: invoices[invoice_number] = []
\* invoices[invoice_number].append(page_num)
append_page(found, invoice_number, p) ==
    IF invoice_number \in DOMAIN found
    THEN [found EXCEPT ![invoice_number] = Append(@, p)]
    ELSE [n \in DOMAIN found \cup {invoice_number} |->
             IF n = invoice_number THEN <<p>> ELSE found[n]]

\* for invoice_number in invoice_numbers: ...
RECURSIVE append_pages(_, _, _)
append_pages(found, invoice_numbers, p) ==
    IF invoice_numbers = <<>> THEN found
    ELSE append_pages(append_page(found, Head(invoice_numbers), p), Tail(invoice_numbers), p)

\* one iteration of the loop of extract_invoices_pypdf2 (main.py 372-379)
extract_invoices_pypdf2_step ==
    /\ pc = "invoices" /\ PDF_LIB = "pypdf2" /\ page_num < Len(doc)
    /\ invoices' = append_pages(invoices, InvoiceNumbers[doc[page_num + 1]], page_num)
    /\ page_num' = page_num + 1
    /\ UNCHANGED <<PDF_LIB, doc, company_names, categories, pending_decisions, pc, web_vars>>

\* one iteration of the loop of extract_invoices_pymupdf (main.py 388-396)
extract_invoices_pymupdf_step ==
    /\ pc = "invoices" /\ PDF_LIB = "pymupdf" /\ page_num < Len(doc)
    /\ invoices' = append_pages(invoices, InvoiceNumbers[doc[page_num + 1]], page_num)
    /\ page_num' = page_num + 1
    /\ UNCHANGED <<PDF_LIB, doc, company_names, categories, pending_decisions, pc, web_vars>>

\* return invoices
extract_invoices_return ==
    /\ pc = "invoices" /\ page_num >= Len(doc)
    /\ pc' = "returned"
    /\ UNCHANGED <<PDF_LIB, doc, company_names, page_num, categories, pending_decisions,
                   invoices, web_vars>>

\* extract_invoices of either backend on one document
InvoiceInit ==
    /\ PDF_LIB \in {"pypdf2", "pymupdf"}
    /\ doc \in InvoiceDocuments
    /\ company_names = <<>>
    /\ page_num = 0
    /\ categories = EmptyCategories
    /\ pending_decisions = <<>>
    /\ pc = "invoices"
    /\ invoices = <<>>
    /\ session = NoSession
    /\ temp_data = <<>>
    /\ response = NoResponse
    /\ results = <<>>
    /\ issued = <<>>
    /\ finalized = FALSE

InvoiceNext ==
    extract_invoices_pypdf2_step \/ extract_invoices_pymupdf_step \/ extract_invoices_return

InvoiceSpec == InvoiceInit /\ [][InvoiceNext]_vars

(***************************************************************************)
(* Properties of the decision handler (under Spec)                         *)
(***************************************************************************)

\* the request is a statement_decision on a session whose queue holds statement
resolves(action, statement) ==
    /\ session # NoSession
    /\ \E k \in 1..Len(session[1].pending) : session[1].pending[k] = statement
    /\ statement_decision(action, statement)

\* the request is a statement_decision on a session whose queue has no entry
\* equal to statement
misses(action, statement) ==
    /\ session # NoSession
    /\ \A k \in 1..Len(session[1].pending) : session[1].pending[k] # statement
    /\ statement_decision(action, statement)

\* C1: a statement_decision whose statement equals no entry of the session's
\* pending queue is answered with an error (500), and the session cookie is
\* as before: the same pending queue and the same category page lists; no
\* file is written and nothing is finalized.
C1_UnknownDecisionIsAnError ==
    [][\A action \in Actions, statement \in Statements :
          misses(action, statement)
          => /\ response'.code = 500
             /\ session' = session
             /\ session'[1].pending = session[1].pending
             /\ session'[1].categories = session[1].categories
             /\ results' = results
             /\ finalized' = finalized]_vars

\* C1: an unknown decision was answered on a session with a non-empty queue
C1_Witness ==
    /\ session # NoSession
    /\ session[1].pending # <<>>
    /\ response = Error(500, "list.remove(x): x not in list")

\* C2: in every state where the pending queue of the session is non-empty,
\* no finalization has happened for that session.
C2_NoFinalizationWhilePending ==
    (session # NoSession /\ session[1].pending # <<>>) => ~finalized

\* C3: a successful statement_decision on a session whose queue holds one
\* entry, the last of the n issued, builds the files in that call and answers
\* 'complete'; the list of files is non-empty when a category page list is
\* non-empty at that point.  Before that the answer is 'continue'.
C3_LastResolveFinalizes ==
    [][\A action \in Actions, statement \in Statements :
          resolves(action, statement)
          => IF Len(session[1].pending) = 1
             THEN /\ response'.code = 200
                  /\ response'.status = "complete"
                  /\ finalized'
                  /\ (\E c \in DOMAIN temp_data'[1].categories :
                         temp_data'[1].categories[c] # <<>>)
                     => (response'.files # <<>> /\ results' # <<>>)
             ELSE /\ response'.code = 200
                  /\ response'.status = "continue"
                  /\ finalized' = finalized]_vars

\* C3: two decisions were issued and the second resolve returned files
C3_Witness ==
    /\ Len(issued) = 2
    /\ finalized
    /\ response.code = 200
    /\ response.status = "complete"
    /\ response.files # <<>>

C5_ActionChoosesCategory ==
    [][\A action \in {"dnm", "foreign", "national"}, statement \in Statements :
          resolves(action, statement)
          => LET target == IF action = "dnm" THEN "dnm"
                           ELSE IF action = "foreign" THEN "foreign"
                           ELSE IF statement.total_pages = 1 THEN "national_single"
                           ELSE "national_multi"
                 pages == [i \in 1..statement.total_pages |-> statement.page_num + i - 1]
                 was == session[1].categories
                 now == temp_data'[1].categories
             IN  /\ now[target] = was[target] \o pages
                 /\ \A c \in DOMAIN was \ {target} : now[c] = was[c]
                 /\ response'.status = "continue" => session'[1].categories = now]_vars

\* C5: a record of three pages was resolved as national
C5_Witness ==
    /\ doc = <<TextNY3>>
    /\ finalized
    /\ temp_data # <<>>
    /\ temp_data[1].categories["national_multi"] = <<1, 2, 3>>

(***************************************************************************)
(* Properties of the page scans (under ScanSpec)                           *)
(***************************************************************************)

\* SequenceMatcher(None, x, w).ratio() of every registry entry x and
\* extracted name w, as a fraction
Similarity == [w \in EntityNames |-> [x \in RegistryNames |-> ratio(x, w)]]

\* the text contains "email" in some letter case
MentionsEmail ==
    [t \in PageTexts |->
        \E i \in 1..(Len(t) - 4) : Lower(SubSeq(t, i, i + 4)) = "email"]

\* the step is an iteration of a scan loop
page_step == pc = "scan" /\ pc' = "scan"

\* the text and the lines of the page the iteration reads
scanned_text == doc[page_num + 1]

scanned_lines == Page[scanned_text].lines

\* a record is detected on the page
detected == scanned_lines # <<>>

\* the pages the iteration covers: from the page it reads to the one before
\* the page the next iteration reads
covered == [i \in 1..(page_num' - page_num) |-> page_num + i]

\* the name of the record equals a registry entry
exact == \E k \in 1..Len(company_names) : company_names[k] = scanned_lines[1]

\* a <= b and a < b for fractions
frac_le(a, b) == a[1] * b[2] <= b[1] * a[2]

\* the similarity of registry entry k to the name of the record
similarity(k) == Similarity[scanned_lines[1]][company_names[k]]

\* entry k is at similarity 0.8 or more
candidate(k) == frac_le(<<8, 10>>, similarity(k))

\* entry k is a candidate and no entry is more similar
best(k) ==
    /\ candidate(k)
    /\ \A l \in 1..Len(company_names) : frac_le(similarity(l), similarity(k))

fuzzy == \E k \in 1..Len(company_names) : candidate(k)

\* the iteration appends nothing to pending_decisions and appends the pages
\* it covers to the page list of category c, and to no other
classified_as(c) ==
    /\ pending_decisions' = pending_decisions
    /\ categories' = [categories EXCEPT ![c] = @ \o covered]

\* C6: an iteration on a page with a record whose name equals a registry
\* entry appends the pages it covers to dnm and to no other category, and
\* appends no pending decision, whatever the registry and the text hold
\* besides.
C6_ExactMatchIsDoNotMail ==
    [][(page_step /\ detected /\ exact) => classified_as("dnm")]_vars

\* C6: a page was filed under dnm by an exact match with the second entry of
\* a registry whose first entry is a close match
C6_Witness ==
    /\ doc = <<TextNY1>>
    /\ company_names = <<"914.949.9618 Acma", "914.949.9618 Acme">>
    /\ pc = "done"
    /\ categories["dnm"] = <<1>>
    /\ pending_decisions = <<>>

\* C7: an iteration on a record without an exact match and with a registry
\* entry at similarity 0.8 or more changes no category and appends one
\* pending decision, whose close_match is a registry entry of the highest
\* similarity and whose lines are the first lines of the record, five at
\* most; without such an entry it appends no pending decision and files the
\* pages under one category.  No page of a pending decision is in a category
\* page list during the scan.
C7_FuzzyMatchIsPending ==
    /\ [][(page_step /\ detected /\ ~exact)
          => IF fuzzy
             THEN /\ categories' = categories
                  /\ Len(pending_decisions') = Len(pending_decisions) + 1
                  /\ SubSeq(pending_decisions', 1, Len(pending_decisions)) = pending_decisions
                  /\ LET d == pending_decisions'[Len(pending_decisions')]
                     IN  /\ d.page_num = page_num + 1
                         /\ d.company_name = scanned_lines[1]
                         /\ \E k \in 1..Len(company_names) :
                               best(k) /\ d.close_match = company_names[k]
                         /\ Len(d.lines) <= 5
                         /\ Len(d.lines) <= Len(scanned_lines)
                         /\ (Len(d.lines) = 5 \/ Len(d.lines) = Len(scanned_lines))
                         /\ d.lines = SubSeq(scanned_lines, 1, Len(d.lines))
             ELSE \E c \in DOMAIN categories : classified_as(c)]_vars
    /\ [](\A k \in 1..Len(pending_decisions) :
             \A c \in DOMAIN categories :
                \A i \in 1..Len(categories[c]) :
                   \/ categories[c][i] < pending_decisions[k].page_num
                   \/ categories[c][i] >= pending_decisions[k].page_num
                                          + pending_decisions[k].total_pages)

\* C7: the scan ended with a pending decision for an entry at similarity 0.8
\* exactly, with a snippet of five of the seven lines of the record
C7_Witness ==
    /\ pc = "done"
    /\ doc = <<TextNY3>>
    /\ company_names = <<"914.949.9618X">>
    /\ Len(pending_decisions) = 1
    /\ pending_decisions[1].close_match = "914.949.9618X"
    /\ Len(pending_decisions[1].lines) = 5
    /\ \A c \in DOMAIN categories : categories[c] = <<>>

\* the decision an iteration appends
appended == pending_decisions'[Len(pending_decisions')]

\* the iteration appends a pending decision
appends == page_step /\ Len(pending_decisions') = Len(pending_decisions) + 1

C10_EmailIsDoNotMail ==
    [][(page_step /\ detected /\ ~exact /\ ~fuzzy)
       => IF MentionsEmail[scanned_text]
          THEN classified_as("dnm")
          ELSE \E c \in {"national_single", "national_multi", "foreign"} :
                  classified_as(c)]_vars

\* C10: a page with "EMail" and a state abbreviation was filed under dnm
C10_Witness ==
    /\ doc = <<TextEmailTX>>
    /\ Page[TextEmailTX].state
    /\ company_names = <<"Acme">>
    /\ pc = "done"
    /\ categories = [EmptyCategories EXCEPT !["dnm"] = <<1>>]

\* the abbreviation st stands at position i of body as a word of its own
token_at(body, st, i) ==
    /\ SubSeq(body, i, i + 1) = st
    /\ (i = 1 \/ ~IsWordChar(CharAt(body, i - 1)))
    /\ (i + 1 = Len(body) \/ ~IsWordChar(CharAt(body, i + 2)))

\* the body lines of the record of the page, the lines after the name, hold
\* a state abbreviation as a word of its own
StateToken ==
    [t \in PageTexts |->
        /\ Page[t].lines # <<>>
        /\ \E k \in 1..Len(US_STATES) :
              \E i \in 1..(Len(JoinSpace(Tail(Page[t].lines))) - 1) :
                 token_at(JoinSpace(Tail(Page[t].lines)), US_STATES[k], i)]

\* C11: an iteration on a record without exact and fuzzy match and without
\* "email" in the text files the pages under a national category only if a
\* state abbreviation is a word of its own in the body lines; with the
\* abbreviations inside longer words only, it files them under foreign.
C11_StateIsAWholeToken ==
    [][(/\ page_step /\ detected /\ ~exact /\ ~fuzzy
        /\ ~MentionsEmail[scanned_text]
        /\ ~StateToken[scanned_text])
       => classified_as("foreign")]_vars

(***************************************************************************)
(* Properties of the files (under Spec)                                    *)
(***************************************************************************)

\* the pages of a page list that are pages of document d
in_range(d, pages) == {pages[i] : i \in 1..Len(pages)} \cap 1..Len(d)

\* files, the files written for the category page lists of assignment from
\* document d, and names, the list returned: a file per category with a page
\* of the document, holding those pages in ascending order, each once
files_of(d, assignment, files, names) ==
    /\ DOMAIN files = {c \o ".pdf" : c \in {b \in DOMAIN assignment : in_range(d, assignment[b]) # {}}}
    /\ {names[i] : i \in 1..Len(names)} = DOMAIN files
    /\ Len(names) = Cardinality(DOMAIN files)
    /\ \A c \in DOMAIN assignment :
          /\ assignment[c] = <<>> => c \o ".pdf" \notin DOMAIN files
          /\ c \o ".pdf" \in DOMAIN files
             => LET pages == files[c \o ".pdf"]
                IN  /\ \A i \in 1..(Len(pages) - 1) : pages[i] < pages[i + 1]
                    /\ \A i \in 1..Len(pages) : pages[i] >= 1 /\ pages[i] <= Len(d)
                    /\ {pages[i] : i \in 1..Len(pages)} = in_range(d, assignment[c])
    /\ UNION {{files[f][i] : i \in 1..Len(files[f])} : f \in DOMAIN files}
       = UNION {in_range(d, assignment[c]) : c \in DOMAIN assignment}

\* C12: for the category page lists given to create_statement_pdfs, by the
\* upload or by the last resolve, every file holds the pages of its category
\* in strictly ascending order, none twice and none outside the document;
\* pages outside the document are left out; a category without pages gets no
\* file; the pages of all files are the pages of the lists that are pages of
\* the document.
C12_FilesAreSortedUniqueInRange ==
    [][(response'.code = 200 /\ response'.status = "complete")
       => files_of(doc,
                   IF temp_data' # <<>> THEN temp_data'[1].categories
                   ELSE process_statements(PDF_LIB, doc, company_names).categories,
                   results', response'.files)]_vars

\* C12: the list <<2, 3, 4, 1>> of a document of two pages gave the file
\* with pages 1 and 2
C12_Witness ==
    /\ Len(doc) = 2
    /\ finalized
    /\ temp_data # <<>>
    /\ temp_data[1].categories["dnm"] = <<2, 3, 4, 1>>
    /\ response.code = 200
    /\ response.status = "complete"
    /\ results = [f \in {"dnm.pdf"} |-> <<1, 2>>]

(***************************************************************************)
(* Properties of extract_invoices (under InvoiceSpec)                      *)
(***************************************************************************)

\* C13: in the result of extract_invoices no page index is twice in the page
\* list of an invoice number, also when the number is found several times in
\* the text of one page.
C13_NoPageTwice ==
    \A n \in DOMAIN invoices :
       \A i \in 1..Len(invoices[n]) : \A j \in 1..Len(invoices[n]) :
          invoices[n][i] = invoices[n][j] => i = j

(***************************************************************************)
(* Properties of the page scans: page counts, coverage, termination        *)
(* (under ScanSpec)                                                        *)
(***************************************************************************)

\* C14: every pending decision of the scan has total_pages >= 1 and a start
\* page >= 0, whatever the page texts are, "Page 1 of 0" included.
C14_PageCountAtLeastOne ==
    \A k \in 1..Len(pending_decisions) :
       /\ pending_decisions[k].total_pages >= 1
       /\ pending_decisions[k].page_num - 1 >= 0

\* C15: when the scan has returned, every page of the document with a record
\* (a start marker before the end marker) is in a category page list or is
\* the page of a pending decision, also after a page that declares a group of
\* several pages.
C15_EveryPageWithARecordIsFiled ==
    pc = "done"
    => \A p \in 1..Len(doc) :
          Page[doc[p]].lines # <<>>
          => \/ \E k \in 1..Len(pending_decisions) : pending_decisions[k].page_num = p
             \/ \E c \in DOMAIN categories :
                   \E i \in 1..Len(categories[c]) : categories[c][i] = p

\* C16: every iteration of a page scan moves the page cursor forward, for
\* every page text, "Page 1 of 0" included.
C16_CursorAdvances ==
    [][page_step => page_num' > page_num]_vars

(***************************************************************************)
(* Properties of a finalized session (under Spec)                          *)
(***************************************************************************)

\* C17: once the files of a session have been built by the resolve of its
\* last decision, every later statement_decision on that session is refused,
\* the last decision sent again with the same or another action included,
\* and builds no files again.
C17_ClosedIsTerminal ==
    [][\A action \in Actions, statement \in Statements :
          (finalized /\ statement_decision(action, statement))
          => /\ response'.code # 200
             /\ results' = results
             /\ finalized' = finalized]_vars

\* the pages of statement
statement_pages(statement) ==
    {statement.page_num + i - 1 : i \in 1..statement.total_pages}

\* the category page lists of assignment that hold page p
lists_with(assignment, p) ==
    {c \in DOMAIN assignment : \E i \in 1..Len(assignment[c]) : assignment[c][i] = p}

\* C18: after a statement_decision that takes a decision out of the queue,
\* every page of that decision is in exactly one category page list; with an
\* action that is none of dnm, foreign and national the decision stays in
\* the queue and no files are built.
C18_PagesConservedByResolve ==
    [][\A action \in Actions, statement \in Statements :
          resolves(action, statement)
          => IF action \in {"dnm", "foreign", "national"}
             THEN \A p \in statement_pages(statement) :
                     Cardinality(lists_with(temp_data'[1].categories, p)) = 1
             ELSE /\ \E k \in 1..Len(temp_data'[1].pending) :
                        temp_data'[1].pending[k] = statement
                  /\ ~(response'.code = 200 /\ response'.status = "complete")
                  /\ finalized' = finalized
                  /\ results' = results]_vars

=============================================================================
